---- MODULE Spec2Model ----
(***************************************************************************)
(* Model of the prisma example repository.                                 *)
(*                                                                         *)
(*   - src/server.js: the top-level script (main().catch().finally()),     *)
(*     the async functions main(), reads() and writes(), executed by the   *)
(*     JavaScript job queue (promise reactions run as microtasks, query    *)
(*     and $disconnect completions arrive from the database client).       *)
(*   - src/prisma/schema.prisma: the four tables and the constraints the   *)
(*     schema declares (@id, @unique, @relation, @default).                *)
(*                                                                         *)
(* Three specifications share the variables:                               *)
(*   Spec       one run of server.js against a database that already holds *)
(*              rows;                                                      *)
(*   ChainSpec  the same run with the completion of main()'s body drawn    *)
(*              from every completion an async body can have, to exercise  *)
(*              the catch handler of server.js lines 81-83;                *)
(*   DbSpec     client calls against the schema, and writes().             *)
(***************************************************************************)
EXTENDS Integers, Sequences, FiniteSets, TLC

\* ---------------------------------------------------------------- bounds
MaxOps == 2          \* client calls issued against the schema in DbSpec
MaxRuns == 2         \* runs of writes() and of the documented programs

\* ------------------------------------------------------------- constants
Take == 10
Skip == 20

Emails == {"alice@example.com", "bob@example.com",
           "user1@example.com", "user2@example.com"}
TagNames == {"prisma", "orm"}
\* Errors a client call can reject with (unreachable database, pool timeout).
Errors == {"P1001", "P2024"}
Undefined == "undefined"
NullRow == [null |-> TRUE]

QueryNames == <<"findUnique", "findFirst", "findMany", "count">>
PromiseIds == {"main", "reads", "catch", "finally", "onFinally", "disconnect"}

VARIABLES
  \* database (schema.prisma)
  users, profiles, posts, tags,
  nextUserId, nextProfileId, nextPostId, nextTagId,
  \* the database clock read by @default(now()); the calls modelled here read
  \* it and do not advance it
  now,
  \* client calls of DbSpec
  opCount, lastCall,
  \* writes()
  writesPc, writesRuns, writesStart,
  \* the documented programs: runs started, beforeEach
  programRuns, beforeEachPc,
  \* the documented interactive transaction: position, uncommitted rows
  txPc, txUser, txProfile,
  \* the documented UserService.createUser, called by two clients
  svcPc, svcEmail, svcError,
  \* the run of server.js
  pc, mainCompletion, prom, jobs, query, issued,
  readsPc, readsLocals, log, disconnectCalls, unhandled

dbVars == <<users, profiles, posts, tags,
            nextUserId, nextProfileId, nextPostId, nextTagId, now>>
callVars == <<opCount, lastCall>>
writesVars == <<writesPc, writesRuns, writesStart>>
runVars == <<pc, mainCompletion, prom, jobs, query, issued,
             readsPc, readsLocals, log, disconnectCalls, unhandled>>
txVars == <<txPc, txUser, txProfile>>
svcVars == <<svcPc, svcEmail, svcError>>
progVars == <<programRuns, beforeEachPc, txVars, svcVars>>
vars == <<dbVars, callVars, writesVars, progVars, runVars>>

\* ------------------------------------------------------------ the schema
\* model User: id, email (@unique), name (optional), createdAt.
UserRow(id, email, name, createdAt) ==
  [id |-> id, email |-> email, name |-> name, createdAt |-> createdAt]

\* model Profile: id, userId (@unique, references User.id).
ProfileRow(id, userId) == [id |-> id, userId |-> userId]

\* Mutant of PostDefaultPublished: published defaults to true.
PostDefaultPublishedTrue == TRUE

\* model Post: published Boolean @default(false)
PostDefaultPublished == FALSE

\* model Post: id, title, published, authorId (references User.id).
PostRow(id, title, published, authorId) ==
  [id |-> id, title |-> title, published |-> published, authorId |-> authorId]

\* model Tag: id, name (@unique).
TagRow(id, name) == [id |-> id, name |-> name]

\* ------------------------------------------------------ queries of reads()
\* Mutant of FindUnique: the where clause is dropped.
FindUniqueAnyRow(us, email) ==
  IF us # {} THEN CHOOSE u \in us : TRUE ELSE NullRow

\* prisma.user.findUnique({ where: { email } })
FindUnique(us, email) ==
  IF \E u \in us : u.email = email
  THEN CHOOSE u \in us : u.email = email
  ELSE NullRow

\* where: { name: { contains: "Alice" } }
NamesContainingAlice == {"Alice Smith"}

FindFirstMatches(us) == {u \in us : u.name \in NamesContainingAlice}

\* where: { posts: { some: { published: true } } }
HasPublishedPost(u, ps) == \E p \in ps : p.authorId = u.id /\ p.published

UsersWithPublishedPost(us, ps) == {u \in us : HasPublishedPost(u, ps)}

\* orderBy: { createdAt: "desc" }; rows with equal createdAt in id order.
Before(a, b) ==
  \/ a.createdAt > b.createdAt
  \/ a.createdAt = b.createdAt /\ a.id < b.id

RECURSIVE OrderByCreatedAtDesc(_)
OrderByCreatedAtDesc(S) ==
  IF S = {} THEN <<>>
  ELSE LET first == CHOOSE a \in S : \A b \in S \ {a} : Before(a, b)
       IN <<first>> \o OrderByCreatedAtDesc(S \ {first})

\* Mutant of Page: the skip is left out.
PageWithoutSkip(s, skip, take) ==
  SubSeq(s, 1, IF Len(s) < take THEN Len(s) ELSE take)

\* skip, then take
Page(s, skip, take) ==
  IF Len(s) <= skip THEN <<>>
  ELSE SubSeq(s, skip + 1, IF Len(s) < skip + take THEN Len(s) ELSE skip + take)

FindMany(us, ps) ==
  Page(OrderByCreatedAtDesc(UsersWithPublishedPost(us, ps)), Skip, Take)

Count(us, ps) == Cardinality(UsersWithPublishedPost(us, ps))

\* ------------------------------------------------- promises and the job queue
Pending == [st |-> "pending", val |-> Undefined]
Fulfilled(v) == [st |-> "fulfilled", val |-> v]
Rejected(e) == [st |-> "rejected", val |-> e]

\* Completion records of an async function body.
NormalCompletion == [kind |-> "return", val |-> Undefined]
ThrowCompletion(e) == [kind |-> "throw", val |-> e]

\* The promise an async function returns once its body has completed.
SettleWith(c) == IF c.kind = "return" THEN Fulfilled(c.val) ELSE Rejected(c.val)

Job(kind, arg) == [kind |-> kind, arg |-> arg]

\* async function main() { reads(); }: the call of reads() is not awaited,
\* the body completes normally as soon as reads() has returned its promise.
MainBody == NormalCompletion

\* Mutant of CatchHandler: the handler returns instead of re-throwing.
CatchHandlerSwallows(e) == NormalCompletion

\* .catch((e) => { throw e; })
CatchHandler(e) == ThrowCompletion(e)

\* The database rows a run of server.js can find: none, the rows writes()
\* leaves, and rows with published posts.
SeedUsers ==
  {UserRow(1, "alice@example.com", "Alice Smith", 0),
   UserRow(2, "bob@example.com", "Bob Johnson", 0),
   UserRow(3, "user1@example.com", "User 1", 1),
   UserRow(4, "user2@example.com", "User 2", 1)}

SeedPosts(published) ==
  {PostRow(1, "My First Post", published, 2),
   PostRow(2, "Second Post", FALSE, 2)}

Seed(us, ps, nu, np) ==
  [users |-> us, posts |-> ps, nextUserId |-> nu, nextPostId |-> np, now |-> 1]

\* A database of n users with a published post each, created two per clock
\* value after the rows writes() leaves, next to users without one.
ManyUsers(n) ==
  {UserRow(i, "user" \o ToString(i) \o "@example.com",
           "User " \o ToString(i), i \div 2) : i \in 5..(n + 5)}

ManyPosts(n) ==
  {PostRow(i, "Post of user " \o ToString(i), i # 5, i) : i \in 5..(n + 5)}

LargeSeed(n) ==
  [users |-> SeedUsers \cup ManyUsers(n),
   posts |-> SeedPosts(TRUE) \cup ManyPosts(n),
   nextUserId |-> n + 6, nextPostId |-> n + 6, now |-> (n + 5) \div 2]

\* Matching users up to the skip, just past it, and past skip and take.
SeedSizes == {Skip - 1, Skip, Skip + Take + 2}

Seeds ==
  {Seed({}, {}, 1, 1),
   Seed(SeedUsers, SeedPosts(FALSE), 5, 3),
   Seed(SeedUsers, SeedPosts(TRUE), 5, 3),
   Seed({u \in SeedUsers : u.id # 1}, SeedPosts(TRUE), 5, 3),
   Seed({u \in SeedUsers : u.id = 1}, {}, 2, 1)}
    \cup {LargeSeed(n) : n \in SeedSizes}

RunInit(completion) ==
  /\ pc = "start"
  /\ mainCompletion = completion
  /\ prom = [p \in PromiseIds |-> Pending]
  /\ jobs = <<>>
  /\ query = [i \in 1..Len(QueryNames) |-> "unissued"]
  /\ issued = <<>>
  /\ readsPc = "notCalled"
  /\ readsLocals = [user |-> NullRow, firstUser |-> NullRow,
                    users |-> <<>>, userCount |-> 0]
  /\ log = <<>>
  /\ disconnectCalls = 0
  /\ unhandled = {}

\* The last client call: operation, arguments, error code ("none": success).
Call(op, arg, error) ==
  [op |-> op, arg |-> arg, error |-> error, result |-> NullRow]

\* A call that resolves to a row (create, findUnique).
CallReturning(op, arg, error, row) ==
  [op |-> op, arg |-> arg, error |-> error, result |-> row]

CallInit ==
  /\ opCount = 0
  /\ lastCall = Call("none", <<>>, "none")

WritesInit ==
  /\ writesPc = "idle"
  /\ writesRuns = 0
  /\ writesStart = [users |-> {}, posts |-> {}]

\* The clients that call UserService.createUser concurrently.
Callers == {1, 2}

ProgInit ==
  /\ programRuns = 0
  /\ beforeEachPc = "idle"
  /\ txPc = "idle"
  /\ txUser = NullRow
  /\ txProfile = NullRow
  /\ svcPc = [c \in Callers |-> "idle"]
  /\ svcEmail = [c \in Callers |-> "none"]
  /\ svcError = [c \in Callers |-> "none"]

SeedInit ==
  \E s \in Seeds :
    /\ users = s.users
    /\ posts = s.posts
    /\ profiles = {}
    /\ tags = {}
    /\ nextUserId = s.nextUserId
    /\ nextPostId = s.nextPostId
    /\ nextProfileId = 1
    /\ nextTagId = 1
    /\ now = s.now

Init == SeedInit /\ CallInit /\ WritesInit /\ ProgInit /\ RunInit(MainBody)

\* ------------------------------------------------------ the run of server.js
QueryIndex(name) == CHOOSE i \in 1..Len(QueryNames) : QueryNames[i] = name

\* A call of prisma.user.<name>(...) followed by await.
\* Mutant of Issue: the query after the named one is sent along with it.
IssueWithNext(q, name) ==
  [i \in 1..Len(q) |-> IF i \in {QueryIndex(name), QueryIndex(name) + 1}
                       THEN "pending" ELSE q[i]]

Issue(q, name) == [q EXCEPT ![QueryIndex(name)] = "pending"]

\* Mutant of RunScript: main() calls writes() next to reads().
RunScriptCallingWrites ==
  /\ pc = "start"
  /\ pc' = "loop"
  /\ query' = Issue(query, "findUnique")
  /\ issued' = Append(issued, "findUnique")
  /\ readsPc' = "findUnique"
  /\ writesPc' = "createAlice"
  /\ writesRuns' = writesRuns + 1
  /\ writesStart' = [users |-> users, posts |-> posts]
  /\ prom' = [prom EXCEPT !["main"] = SettleWith(mainCompletion)]
  /\ jobs' = Append(jobs, Job("catch", Undefined))
  /\ UNCHANGED <<mainCompletion, readsLocals, log, disconnectCalls, unhandled>>
  /\ UNCHANGED <<dbVars, callVars, progVars>>

\* The synchronous part of the script: main() runs reads() up to its first
\* await, main()'s promise settles, .catch() and .finally() are attached.
RunScript ==
  /\ pc = "start"
  /\ pc' = "loop"
  /\ query' = Issue(query, "findUnique")
  /\ issued' = Append(issued, "findUnique")
  /\ readsPc' = "findUnique"
  /\ prom' = [prom EXCEPT !["main"] = SettleWith(mainCompletion)]
  /\ jobs' = Append(jobs, Job("catch", Undefined))
  /\ UNCHANGED <<mainCompletion, readsLocals, log, disconnectCalls, unhandled>>
  /\ UNCHANGED <<dbVars, callVars, writesVars, progVars>>

\* Reaction of .catch(): a fulfilled main() passes through, a rejected one
\* runs the handler.
CatchReaction ==
  /\ jobs # <<>> /\ Head(jobs).kind = "catch"
  /\ prom' = [prom EXCEPT !["catch"] =
                IF prom["main"].st = "fulfilled" THEN prom["main"]
                ELSE SettleWith(CatchHandler(prom["main"].val))]
  /\ jobs' = Append(Tail(jobs), Job("finally", Undefined))
  /\ UNCHANGED <<pc, mainCompletion, query, issued, readsPc, readsLocals, log,
                 disconnectCalls, unhandled>>
  /\ UNCHANGED <<dbVars, callVars, writesVars, progVars>>

\* Mutant of FinallyReaction: the callback runs without calling $disconnect().
FinallyReactionNoDisconnect ==
  /\ jobs # <<>> /\ Head(jobs).kind = "finally"
  /\ jobs' = Tail(jobs)
  /\ UNCHANGED <<pc, mainCompletion, prom, query, issued, readsPc, readsLocals,
                 log, unhandled, disconnectCalls>>
  /\ UNCHANGED <<dbVars, callVars, writesVars, progVars>>

\* Reaction of .finally(): the async callback runs up to its await, which
\* calls prisma.$disconnect().
FinallyReaction ==
  /\ jobs # <<>> /\ Head(jobs).kind = "finally"
  /\ disconnectCalls' = disconnectCalls + 1
  /\ jobs' = Tail(jobs)
  /\ UNCHANGED <<pc, mainCompletion, prom, query, issued, readsPc, readsLocals,
                 log, unhandled>>
  /\ UNCHANGED <<dbVars, callVars, writesVars, progVars>>

\* The client completes $disconnect().
DisconnectSettles ==
  /\ disconnectCalls > 0
  /\ prom["disconnect"].st = "pending"
  /\ \E r \in {Fulfilled(Undefined)} \cup {Rejected(e) : e \in Errors} :
       prom' = [prom EXCEPT !["disconnect"] = r]
  /\ jobs' = Append(jobs, Job("onFinally", Undefined))
  /\ UNCHANGED <<pc, mainCompletion, query, issued, readsPc, readsLocals, log,
                 disconnectCalls, unhandled>>
  /\ UNCHANGED <<dbVars, callVars, writesVars, progVars>>

\* The async callback of .finally() resumes after its await and completes.
OnFinallyResume ==
  /\ jobs # <<>> /\ Head(jobs).kind = "onFinally"
  /\ prom' = [prom EXCEPT !["onFinally"] =
                IF prom["disconnect"].st = "fulfilled" THEN Fulfilled(Undefined)
                ELSE Rejected(prom["disconnect"].val)]
  /\ jobs' = Append(Tail(jobs), Job("finallySettle", Undefined))
  /\ UNCHANGED <<pc, mainCompletion, query, issued, readsPc, readsLocals, log,
                 disconnectCalls, unhandled>>
  /\ UNCHANGED <<dbVars, callVars, writesVars, progVars>>

\* The promise of .finally() takes the settlement of the promise it was
\* attached to, unless the callback rejected. No handler is attached to it.
FinallySettle ==
  /\ jobs # <<>> /\ Head(jobs).kind = "finallySettle"
  /\ LET r == IF prom["onFinally"].st = "fulfilled" THEN prom["catch"]
              ELSE prom["onFinally"]
     IN /\ prom' = [prom EXCEPT !["finally"] = r]
        /\ unhandled' = IF r.st = "rejected" THEN unhandled \cup {"finally"}
                        ELSE unhandled
  /\ jobs' = Tail(jobs)
  /\ UNCHANGED <<pc, mainCompletion, query, issued, readsPc, readsLocals, log,
                 disconnectCalls>>
  /\ UNCHANGED <<dbVars, callVars, writesVars, progVars>>

\* The client completes the pending query of reads().
QuerySettles ==
  \E i \in 1..Len(QueryNames) :
    /\ query[i] = "pending"
    /\ \E e \in {Undefined} \cup Errors :
         /\ query' = [query EXCEPT ![i] = IF e = Undefined THEN "resolved"
                                          ELSE "rejected"]
         /\ jobs' = Append(jobs, Job("reads", e))
    /\ UNCHANGED <<pc, mainCompletion, prom, issued, readsPc, readsLocals, log,
                   disconnectCalls, unhandled>>
    /\ UNCHANGED <<dbVars, callVars, writesVars, progVars>>

\* reads() resumes after an await: a rejected query throws out of reads(),
\* whose promise nobody handles; a resolved one runs reads() to its next await.
ReadsResume ==
  /\ jobs # <<>> /\ Head(jobs).kind = "reads"
  /\ jobs' = Tail(jobs)
  /\ IF Head(jobs).arg # Undefined
     THEN /\ prom' = [prom EXCEPT !["reads"] = Rejected(Head(jobs).arg)]
          /\ readsPc' = "thrown"
          /\ unhandled' = unhandled \cup {"reads"}
          /\ UNCHANGED <<query, issued, readsLocals, log>>
     ELSE /\ unhandled' = unhandled
          /\ CASE readsPc = "findUnique" ->
                    LET user == FindUnique(users, "alice@example.com")
                    IN /\ readsLocals' = [readsLocals EXCEPT !.user = user]
                       /\ log' = Append(log, <<"User found:", user>>)
                       /\ query' = Issue(query, "findFirst")
                       /\ issued' = Append(issued, "findFirst")
                       /\ readsPc' = "findFirst"
                       /\ prom' = prom
               [] readsPc = "findFirst" ->
                    /\ \E first \in (IF FindFirstMatches(users) = {} THEN {NullRow}
                                     ELSE FindFirstMatches(users)) :
                         readsLocals' = [readsLocals EXCEPT !.firstUser = first]
                    /\ query' = Issue(query, "findMany")
                    /\ issued' = Append(issued, "findMany")
                    /\ readsPc' = "findMany"
                    /\ UNCHANGED <<log, prom>>
               [] readsPc = "findMany" ->
                    /\ readsLocals' = [readsLocals EXCEPT
                                         !.users = FindMany(users, posts)]
                    /\ query' = Issue(query, "count")
                    /\ issued' = Append(issued, "count")
                    /\ readsPc' = "count"
                    /\ UNCHANGED <<log, prom>>
               [] readsPc = "count" ->
                    /\ readsLocals' = [readsLocals EXCEPT
                                         !.userCount = Count(users, posts)]
                    /\ prom' = [prom EXCEPT !["reads"] = Fulfilled(Undefined)]
                    /\ readsPc' = "returned"
                    /\ UNCHANGED <<query, issued, log>>
  /\ UNCHANGED <<pc, mainCompletion, disconnectCalls>>
  /\ UNCHANGED <<dbVars, callVars, writesVars, progVars>>

Next ==
  \/ RunScript
  \/ CatchReaction
  \/ FinallyReaction
  \/ DisconnectSettles
  \/ OnFinallyResume
  \/ FinallySettle
  \/ QuerySettles
  \/ ReadsResume

Spec == Init /\ [][Next]_vars

\* The same script with every completion main()'s body could have.
ChainInit ==
  /\ SeedInit /\ CallInit /\ WritesInit /\ ProgInit
  /\ \E c \in {NormalCompletion} \cup {ThrowCompletion(e) : e \in Errors} :
       RunInit(c)

ChainSpec == ChainInit /\ [][Next]_vars

\* ============================================ client calls against the schema
\* Results of a write: the error code ("none" when it succeeded) and the rows.
UserResult(error, us) == [error |-> error, users |-> us]
DeleteResult(error, us, pfs, ps) ==
  [error |-> error, users |-> us, profiles |-> pfs, posts |-> ps]

\* Mutant of InsertUser: the name given to create is not stored.
InsertUserDropsName(us, row) ==
  IF \E u \in us : u.email = row.email
  THEN UserResult("P2002", us)
  ELSE UserResult("none", us \cup {[row EXCEPT !.name = "null"]})

\* Mutant of InsertUser: email is not declared @unique.
InsertUserNoUnique(us, row) == UserResult("none", us \cup {row})

\* INSERT into User: email @unique.
InsertUser(us, row) ==
  IF \E u \in us : u.email = row.email
  THEN UserResult("P2002", us)
  ELSE UserResult("none", us \cup {row})

\* The row a successful create resolves to: the row it inserted.
CreatedUser(r, id) ==
  IF r.error = "none" THEN CHOOSE u \in r.users : u.id = id ELSE NullRow

\* UPDATE User SET email WHERE id: email @unique.
UpdateUserEmail(us, id, email) ==
  IF ~\E u \in us : u.id = id THEN UserResult("P2025", us)
  ELSE IF \E u \in us : u.id # id /\ u.email = email THEN UserResult("P2002", us)
  ELSE UserResult("none", {IF u.id = id THEN [u EXCEPT !.email = email] ELSE u
                             : u \in us})

\* Mutant of DeleteUser: the relations declare onDelete: Cascade.
DeleteUserCascade(us, pfs, ps, id) ==
  IF ~\E u \in us : u.id = id THEN DeleteResult("P2025", us, pfs, ps)
  ELSE DeleteResult("none", {u \in us : u.id # id},
                    {pf \in pfs : pf.userId # id}, {p \in ps : p.authorId # id})

\* Mutant of DeleteUser: the foreign keys are not enforced.
DeleteUserNoForeignKey(us, pfs, ps, id) ==
  IF ~\E u \in us : u.id = id THEN DeleteResult("P2025", us, pfs, ps)
  ELSE DeleteResult("none", {u \in us : u.id # id}, pfs, ps)

\* DELETE FROM User WHERE id: Profile.userId and Post.authorId reference
\* User.id without onDelete, and both are required, so the delete is
\* restricted while a Profile or a Post references the row.
DeleteUser(us, pfs, ps, id) ==
  IF ~\E u \in us : u.id = id THEN DeleteResult("P2025", us, pfs, ps)
  ELSE IF \/ \E pf \in pfs : pf.userId = id
          \/ \E p \in ps : p.authorId = id
       THEN DeleteResult("P2003", us, pfs, ps)
  ELSE DeleteResult("none", {u \in us : u.id # id}, pfs, ps)

\* Mutant of InsertProfile: userId is not declared @unique.
InsertProfileNoUnique(us, pfs, row) ==
  IF ~\E u \in us : u.id = row.userId THEN [error |-> "P2003", profiles |-> pfs]
  ELSE [error |-> "none", profiles |-> pfs \cup {row}]

\* INSERT into Profile: userId @unique, references User.id.
InsertProfile(us, pfs, row) ==
  IF ~\E u \in us : u.id = row.userId THEN [error |-> "P2003", profiles |-> pfs]
  ELSE IF \E pf \in pfs : pf.userId = row.userId
       THEN [error |-> "P2002", profiles |-> pfs]
  ELSE [error |-> "none", profiles |-> pfs \cup {row}]

\* INSERT into Post: authorId references User.id.
InsertPost(us, ps, row) ==
  IF ~\E u \in us : u.id = row.authorId THEN [error |-> "P2003", posts |-> ps]
  ELSE [error |-> "none", posts |-> ps \cup {row}]

\* Mutant of InsertTag: name is not declared @unique.
InsertTagNoUnique(tgs, row) == [error |-> "none", tags |-> tgs \cup {row}]

\* INSERT into Tag: name @unique.
InsertTag(tgs, row) ==
  IF \E t \in tgs : t.name = row.name THEN [error |-> "P2002", tags |-> tgs]
  ELSE [error |-> "none", tags |-> tgs \cup {row}]

\* published: the given value, or the column default when none is given.
Published(given) == IF given = "default" THEN PostDefaultPublished ELSE given = "true"

\* The names server.js gives to the users it creates.
NameOf(email) ==
  CASE email = "alice@example.com" -> "Alice Smith"
    [] email = "bob@example.com" -> "Bob Johnson"
    [] email = "user1@example.com" -> "User 1"
    [] email = "user2@example.com" -> "User 2"

\* Client calls are issued one at a time, between runs of writes().
WritesRunning == writesPc \in {"createAlice", "createBob", "createMany"}
BeforeEachRunning == beforeEachPc \in {"deleteUsers", "deletePosts"}
TxRunning == txPc \in {"createUser", "createProfile", "commit"}
SvcRunning == \E c \in Callers : svcPc[c] \in {"findByEmail", "create"}
ProgramRunning == WritesRunning \/ BeforeEachRunning \/ TxRunning \/ SvcRunning
CanCall == opCount < MaxOps /\ ~ProgramRunning
\* writes() and the documented programs are started MaxRuns times in all.
CanStart == ~ProgramRunning /\ writesRuns + programRuns < MaxRuns

DbInit ==
  /\ users = {} /\ profiles = {} /\ posts = {} /\ tags = {}
  /\ nextUserId = 1 /\ nextProfileId = 1 /\ nextPostId = 1 /\ nextTagId = 1
  /\ now = 0

\* prisma.user.create({ data: { email, name } })
UserCreate ==
  /\ CanCall
  /\ \E email \in Emails :
       LET r == InsertUser(users, UserRow(nextUserId, email, NameOf(email), now))
       IN /\ users' = r.users
          /\ nextUserId' = IF r.error = "none" THEN nextUserId + 1 ELSE nextUserId
          /\ lastCall' = CallReturning("user.create", <<email, NameOf(email)>>,
                                       r.error, CreatedUser(r, nextUserId))
  /\ opCount' = opCount + 1
  /\ UNCHANGED <<profiles, posts, tags, nextProfileId, nextPostId, nextTagId, now>>
  /\ UNCHANGED <<writesVars, progVars, runVars>>

\* prisma.user.createMany({ data: [{ email }, { email }] }): one INSERT
\* statement, all rows or none.
InsertUsers(us, first, second) ==
  LET r1 == InsertUser(us, first)
      r2 == InsertUser(r1.users, second)
  IN IF r1.error # "none" THEN UserResult(r1.error, us)
     ELSE IF r2.error # "none" THEN UserResult(r2.error, us)
     ELSE r2

UserCreateMany ==
  /\ CanCall
  /\ \E e1 \in Emails, e2 \in Emails :
       LET r == InsertUsers(users, UserRow(nextUserId, e1, NameOf(e1), now),
                            UserRow(nextUserId + 1, e2, NameOf(e2), now))
       IN /\ users' = r.users
          /\ nextUserId' = IF r.error = "none" THEN nextUserId + 2 ELSE nextUserId
          /\ lastCall' = Call("user.createMany", <<e1, e2>>, r.error)
  /\ opCount' = opCount + 1
  /\ UNCHANGED <<profiles, posts, tags, nextProfileId, nextPostId, nextTagId, now>>
  /\ UNCHANGED <<writesVars, progVars, runVars>>

\* prisma.user.findUnique({ where: { email } })
UserFindUnique ==
  /\ CanCall
  /\ \E email \in Emails :
       lastCall' = CallReturning("user.findUnique", <<email>>, "none",
                                 FindUnique(users, email))
  /\ opCount' = opCount + 1
  /\ UNCHANGED <<dbVars, writesVars, progVars, runVars>>

\* prisma.user.update({ where: { id }, data: { email } })
UserUpdate ==
  /\ CanCall
  /\ \E id \in 1..nextUserId, email \in Emails :
       LET r == UpdateUserEmail(users, id, email)
       IN /\ users' = r.users
          /\ lastCall' = Call("user.update", <<id, email>>, r.error)
  /\ opCount' = opCount + 1
  /\ UNCHANGED <<profiles, posts, tags,
                 nextUserId, nextProfileId, nextPostId, nextTagId, now>>
  /\ UNCHANGED <<writesVars, progVars, runVars>>

\* prisma.user.upsert({ where: { email }, update: { email: to },
\*                      create: { email, name } })
UserUpsert ==
  /\ CanCall
  /\ \E email \in Emails, to \in Emails :
       LET found == FindUnique(users, email)
           r == IF found = NullRow
                THEN InsertUser(users, UserRow(nextUserId, email, NameOf(email), now))
                ELSE UpdateUserEmail(users, found.id, to)
       IN /\ users' = r.users
          /\ nextUserId' = IF found = NullRow /\ r.error = "none"
                           THEN nextUserId + 1 ELSE nextUserId
          /\ lastCall' = Call("user.upsert", <<email, to>>, r.error)
  /\ opCount' = opCount + 1
  /\ UNCHANGED <<profiles, posts, tags, nextProfileId, nextPostId, nextTagId, now>>
  /\ UNCHANGED <<writesVars, progVars, runVars>>

\* prisma.user.delete({ where: { id } })
UserDelete ==
  /\ CanCall
  /\ \E id \in 1..nextUserId :
       LET r == DeleteUser(users, profiles, posts, id)
       IN /\ users' = r.users
          /\ profiles' = r.profiles
          /\ posts' = r.posts
          /\ lastCall' = Call("user.delete", <<id>>, r.error)
  /\ opCount' = opCount + 1
  /\ UNCHANGED <<tags, nextUserId, nextProfileId, nextPostId, nextTagId, now>>
  /\ UNCHANGED <<writesVars, progVars, runVars>>

\* prisma.profile.create({ data: { userId } })
ProfileCreate ==
  /\ CanCall
  /\ \E userId \in 1..nextUserId :
       LET r == InsertProfile(users, profiles, ProfileRow(nextProfileId, userId))
       IN /\ profiles' = r.profiles
          /\ nextProfileId' = IF r.error = "none" THEN nextProfileId + 1
                              ELSE nextProfileId
          /\ lastCall' = Call("profile.create", <<userId>>, r.error)
  /\ opCount' = opCount + 1
  /\ UNCHANGED <<users, posts, tags, nextUserId, nextPostId, nextTagId, now>>
  /\ UNCHANGED <<writesVars, progVars, runVars>>

\* prisma.profile.delete({ where: { id } })
ProfileDelete ==
  /\ CanCall
  /\ \E id \in 1..nextProfileId :
       /\ profiles' = {pf \in profiles : pf.id # id}
       /\ lastCall' = Call("profile.delete", <<id>>,
                           IF \E pf \in profiles : pf.id = id THEN "none"
                           ELSE "P2025")
  /\ opCount' = opCount + 1
  /\ UNCHANGED <<users, posts, tags,
                 nextUserId, nextProfileId, nextPostId, nextTagId, now>>
  /\ UNCHANGED <<writesVars, progVars, runVars>>

\* prisma.post.create({ data: { title, authorId } }), with or without published
PostCreate ==
  /\ CanCall
  /\ \E authorId \in 1..nextUserId, given \in {"default", "true", "false"} :
       LET r == InsertPost(users, posts,
                           PostRow(nextPostId, "title", Published(given), authorId))
       IN /\ posts' = r.posts
          /\ nextPostId' = IF r.error = "none" THEN nextPostId + 1 ELSE nextPostId
          /\ lastCall' = Call("post.create", <<authorId, given>>, r.error)
  /\ opCount' = opCount + 1
  /\ UNCHANGED <<users, profiles, tags, nextUserId, nextProfileId, nextTagId, now>>
  /\ UNCHANGED <<writesVars, progVars, runVars>>

\* prisma.post.delete({ where: { id } })
PostDelete ==
  /\ CanCall
  /\ \E id \in 1..nextPostId :
       /\ posts' = {p \in posts : p.id # id}
       /\ lastCall' = Call("post.delete", <<id>>,
                           IF \E p \in posts : p.id = id THEN "none" ELSE "P2025")
  /\ opCount' = opCount + 1
  /\ UNCHANGED <<users, profiles, tags,
                 nextUserId, nextProfileId, nextPostId, nextTagId, now>>
  /\ UNCHANGED <<writesVars, progVars, runVars>>

\* prisma.tag.create({ data: { name } })
TagCreate ==
  /\ CanCall
  /\ \E name \in TagNames :
       LET r == InsertTag(tags, TagRow(nextTagId, name))
       IN /\ tags' = r.tags
          /\ nextTagId' = IF r.error = "none" THEN nextTagId + 1 ELSE nextTagId
          /\ lastCall' = Call("tag.create", <<name>>, r.error)
  /\ opCount' = opCount + 1
  /\ UNCHANGED <<users, profiles, posts, nextUserId, nextProfileId, nextPostId, now>>
  /\ UNCHANGED <<writesVars, progVars, runVars>>

\* ------------------------------------------------------------------ writes()
\* writes() is called: it runs up to the await of its first create.
WritesCall ==
  /\ CanStart
  /\ writesRuns' = writesRuns + 1
  /\ writesPc' = "createAlice"
  /\ writesStart' = [users |-> users, posts |-> posts]
  /\ UNCHANGED <<dbVars, callVars, progVars, runVars>>

\* Create single record (alice); a rejection throws out of writes().
WritesCreateAlice ==
  /\ writesPc = "createAlice"
  /\ LET r == InsertUser(users, UserRow(nextUserId, "alice@example.com",
                                        "Alice Smith", now))
     IN /\ users' = r.users
        /\ nextUserId' = IF r.error = "none" THEN nextUserId + 1 ELSE nextUserId
        /\ lastCall' = CallReturning("user.create",
                                     <<"alice@example.com", "Alice Smith">>,
                                     r.error, CreatedUser(r, nextUserId))
        /\ writesPc' = IF r.error = "none" THEN "createBob" ELSE "thrown"
  /\ UNCHANGED <<profiles, posts, tags, nextProfileId, nextPostId, nextTagId, now>>
  /\ UNCHANGED <<opCount, writesRuns, writesStart, progVars, runVars>>

\* Mutant of WritesCreateBob: the nested write is not a transaction; the
\* posts are written first and stay when the user's insert fails.
WritesCreateBobNotAtomic ==
  /\ writesPc = "createBob"
  /\ LET r == InsertUser(users, UserRow(nextUserId, "bob@example.com",
                                        "Bob Johnson", now))
         newPosts == {PostRow(nextPostId, "My First Post",
                              Published("default"), nextUserId),
                      PostRow(nextPostId + 1, "Second Post",
                              Published("default"), nextUserId)}
     IN /\ users' = r.users
        /\ posts' = posts \cup newPosts
        /\ nextUserId' = IF r.error = "none" THEN nextUserId + 1 ELSE nextUserId
        /\ nextPostId' = nextPostId + 2
        /\ lastCall' = CallReturning("user.create",
                                     <<"bob@example.com", "Bob Johnson">>,
                                     r.error, CreatedUser(r, nextUserId))
        /\ writesPc' = IF r.error = "none" THEN "createMany" ELSE "thrown"
  /\ UNCHANGED <<profiles, tags, nextProfileId, nextTagId, now>>
  /\ UNCHANGED <<opCount, writesRuns, writesStart, progVars, runVars>>

\* Create with relations (bob and two posts, no published value given): the
\* client runs a nested write as one transaction.
WritesCreateBob ==
  /\ writesPc = "createBob"
  /\ LET r == InsertUser(users, UserRow(nextUserId, "bob@example.com",
                                        "Bob Johnson", now))
         p1 == InsertPost(r.users, posts,
                          PostRow(nextPostId, "My First Post",
                                  Published("default"), nextUserId))
         p2 == InsertPost(r.users, p1.posts,
                          PostRow(nextPostId + 1, "Second Post",
                                  Published("default"), nextUserId))
         error == IF r.error # "none" THEN r.error
                  ELSE IF p1.error # "none" THEN p1.error ELSE p2.error
     IN /\ users' = IF error = "none" THEN r.users ELSE users
        /\ posts' = IF error = "none" THEN p2.posts ELSE posts
        /\ nextUserId' = IF error = "none" THEN nextUserId + 1 ELSE nextUserId
        /\ nextPostId' = IF error = "none" THEN nextPostId + 2 ELSE nextPostId
        /\ lastCall' = CallReturning("user.create",
                                     <<"bob@example.com", "Bob Johnson">>,
                                     error, CreatedUser(r, nextUserId))
        /\ writesPc' = IF error = "none" THEN "createMany" ELSE "thrown"
  /\ UNCHANGED <<profiles, tags, nextProfileId, nextTagId, now>>
  /\ UNCHANGED <<opCount, writesRuns, writesStart, progVars, runVars>>

\* Mutant of WritesCreateMany: writes() is one transaction, and a failure of
\* the last insert takes the earlier ones back.
WritesCreateManyRollingBack ==
  /\ writesPc = "createMany"
  /\ LET r == InsertUsers(users,
                          UserRow(nextUserId, "user1@example.com", "User 1", now),
                          UserRow(nextUserId + 1, "user2@example.com", "User 2", now))
     IN /\ users' = IF r.error = "none" THEN r.users ELSE writesStart.users
        /\ posts' = IF r.error = "none" THEN posts ELSE writesStart.posts
        /\ nextUserId' = IF r.error = "none" THEN nextUserId + 2 ELSE nextUserId
        /\ lastCall' = Call("user.createMany",
                            <<"user1@example.com", "user2@example.com">>, r.error)
        /\ writesPc' = IF r.error = "none" THEN "returned" ELSE "thrown"
  /\ UNCHANGED <<profiles, tags, nextProfileId, nextPostId, nextTagId, now>>
  /\ UNCHANGED <<opCount, writesRuns, writesStart, progVars, runVars>>

\* Create many (user1, user2), then writes() returns.
WritesCreateMany ==
  /\ writesPc = "createMany"
  /\ LET r == InsertUsers(users,
                          UserRow(nextUserId, "user1@example.com", "User 1", now),
                          UserRow(nextUserId + 1, "user2@example.com", "User 2", now))
     IN /\ users' = r.users
        /\ nextUserId' = IF r.error = "none" THEN nextUserId + 2 ELSE nextUserId
        /\ lastCall' = Call("user.createMany",
                            <<"user1@example.com", "user2@example.com">>, r.error)
        /\ writesPc' = IF r.error = "none" THEN "returned" ELSE "thrown"
  /\ UNCHANGED <<profiles, posts, tags, nextProfileId, nextPostId, nextTagId, now>>
  /\ UNCHANGED <<opCount, writesRuns, writesStart, progVars, runVars>>

\* ------------------------------------------------ beforeEach (orm_slides.md)
\* DELETE FROM User: one statement; it is restricted as a whole while a
\* Profile or a Post references a User row.
DeleteAllUsers(us, pfs, ps) ==
  IF \E u \in us : (\E pf \in pfs : pf.userId = u.id) \/ (\E p \in ps : p.authorId = u.id)
  THEN UserResult("P2003", us)
  ELSE UserResult("none", {})

\* beforeEach is called: it runs up to the await of user.deleteMany().
BeforeEachCall ==
  /\ CanStart
  /\ programRuns' = programRuns + 1
  /\ beforeEachPc' = "deleteUsers"
  /\ UNCHANGED <<dbVars, callVars, writesVars, txVars, svcVars, runVars>>

\* await prisma.user.deleteMany(); a rejection throws out of beforeEach.
BeforeEachDeleteUsers ==
  /\ beforeEachPc = "deleteUsers"
  /\ LET r == DeleteAllUsers(users, profiles, posts)
     IN /\ users' = r.users
        /\ lastCall' = Call("user.deleteMany", <<>>, r.error)
        /\ beforeEachPc' = IF r.error = "none" THEN "deletePosts" ELSE "thrown"
  /\ UNCHANGED <<profiles, posts, tags,
                 nextUserId, nextProfileId, nextPostId, nextTagId, now>>
  /\ UNCHANGED <<opCount, programRuns, writesVars, txVars, svcVars, runVars>>

\* await prisma.post.deleteMany(); then beforeEach returns.
BeforeEachDeletePosts ==
  /\ beforeEachPc = "deletePosts"
  /\ posts' = {}
  /\ lastCall' = Call("post.deleteMany", <<>>, "none")
  /\ beforeEachPc' = "returned"
  /\ UNCHANGED <<users, profiles, tags,
                 nextUserId, nextProfileId, nextPostId, nextTagId, now>>
  /\ UNCHANGED <<opCount, programRuns, writesVars, txVars, svcVars, runVars>>

\* ------------------------------- the interactive transaction (orm_slides.md)
\* prisma.$transaction(async (prisma) => { ... }) is called: BEGIN, and the
\* callback runs up to the await of its user.create.
TxBegin ==
  /\ CanStart
  /\ programRuns' = programRuns + 1
  /\ txPc' = "createUser"
  /\ txUser' = NullRow
  /\ txProfile' = NullRow
  /\ UNCHANGED <<dbVars, callVars, writesVars, beforeEachPc, svcVars, runVars>>

\* Mutant of TxCreateUser: the create runs outside the transaction and is
\* committed at once.
TxCreateUserAutocommit ==
  /\ txPc = "createUser"
  /\ LET row == UserRow(nextUserId, "john@email.com", "John", now)
         r == InsertUser(users, row)
     IN /\ users' = r.users
        /\ txUser' = IF r.error = "none" THEN row ELSE NullRow
        /\ nextUserId' = IF r.error = "none" THEN nextUserId + 1 ELSE nextUserId
        /\ lastCall' = CallReturning("tx.user.create", <<"john@email.com", "John">>,
                                     r.error, CreatedUser(r, nextUserId))
        /\ txPc' = IF r.error = "none" THEN "createProfile" ELSE "rolledBack"
  /\ UNCHANGED <<profiles, posts, tags, nextProfileId, nextPostId, nextTagId, now>>
  /\ UNCHANGED <<opCount, programRuns, beforeEachPc, txProfile, svcVars,
                 writesVars, runVars>>

\* The user.create of the callback: the row is written inside the
\* transaction and no other client sees it before COMMIT; a rejection throws
\* out of the callback, which rolls the transaction back. The autoincrement
\* id stays used either way.
TxCreateUser ==
  /\ txPc = "createUser"
  /\ LET row == UserRow(nextUserId, "john@email.com", "John", now)
         r == InsertUser(users, row)
     IN /\ txUser' = IF r.error = "none" THEN row ELSE NullRow
        /\ nextUserId' = IF r.error = "none" THEN nextUserId + 1 ELSE nextUserId
        /\ lastCall' = CallReturning("tx.user.create", <<"john@email.com", "John">>,
                                     r.error, CreatedUser(r, nextUserId))
        /\ txPc' = IF r.error = "none" THEN "createProfile" ELSE "rolledBack"
  /\ UNCHANGED <<users, profiles, posts, tags,
                 nextProfileId, nextPostId, nextTagId, now>>
  /\ UNCHANGED <<opCount, programRuns, beforeEachPc, txProfile, svcVars,
                 writesVars, runVars>>

\* The profile.create of the callback for user.id: inside the transaction
\* the new user exists; the call can also fail in the client (connection,
\* transaction timeout), which throws out of the callback: ROLLBACK.
TxCreateProfile ==
  /\ txPc = "createProfile"
  /\ \E failure \in {"none"} \cup Errors :
       LET row == ProfileRow(nextProfileId, txUser.id)
           r == InsertProfile(users \cup {txUser}, profiles, row)
           error == IF failure # "none" THEN failure ELSE r.error
       IN /\ txProfile' = IF error = "none" THEN row ELSE NullRow
          /\ txUser' = IF error = "none" THEN txUser ELSE NullRow
          /\ nextProfileId' = IF error = "none" THEN nextProfileId + 1
                              ELSE nextProfileId
          /\ lastCall' = Call("tx.profile.create", <<txUser.id>>, error)
          /\ txPc' = IF error = "none" THEN "commit" ELSE "rolledBack"
  /\ UNCHANGED <<users, profiles, posts, tags, nextUserId, nextPostId, nextTagId, now>>
  /\ UNCHANGED <<opCount, programRuns, beforeEachPc, svcVars, writesVars, runVars>>

\* The callback has returned { user, profile }: COMMIT makes both rows
\* visible at once.
TxCommit ==
  /\ txPc = "commit"
  /\ users' = users \cup {txUser}
  /\ profiles' = profiles \cup {txProfile}
  /\ txPc' = "committed"
  /\ UNCHANGED <<posts, tags, nextUserId, nextProfileId, nextPostId, nextTagId, now>>
  /\ UNCHANGED <<callVars, programRuns, beforeEachPc, txUser, txProfile,
                 svcVars, writesVars, runVars>>

\* ------------------------------------- UserService.createUser (orm_slides.md)
\* The userData.email values the clients pass.
ServiceEmails == {"alice@example.com", "bob@example.com", "not-an-email"}

\* userData.email.includes("@")
IncludesAt(email) == email # "not-an-email"

\* createUser(userData) is called: the format check, then the call of
\* findByEmail up to its await. Several calls can be in progress at once.
ServiceCall ==
  /\ ~(WritesRunning \/ BeforeEachRunning \/ TxRunning)
  /\ writesRuns + programRuns < MaxRuns
  /\ programRuns' = programRuns + 1
  /\ \E c \in Callers, email \in ServiceEmails :
       /\ svcPc[c] = "idle"
       /\ svcEmail' = [svcEmail EXCEPT ![c] = email]
       /\ IF IncludesAt(email)
          THEN /\ svcPc' = [svcPc EXCEPT ![c] = "findByEmail"]
               /\ svcError' = svcError
          ELSE /\ svcPc' = [svcPc EXCEPT ![c] = "thrown"]
               /\ svcError' = [svcError EXCEPT ![c] = "Invalid email format"]
  /\ UNCHANGED <<dbVars, callVars, writesVars, beforeEachPc, txVars, runVars>>

\* findByEmail resolves: an existing user throws 'User already exists',
\* otherwise repository.create is called.
ServiceFindByEmail ==
  \E c \in Callers :
    /\ svcPc[c] = "findByEmail"
    /\ LET existingUser == FindUnique(users, svcEmail[c])
       IN /\ lastCall' = CallReturning("user.findUnique", <<svcEmail[c]>>, "none",
                                       existingUser)
          /\ IF existingUser # NullRow
             THEN /\ svcPc' = [svcPc EXCEPT ![c] = "thrown"]
                  /\ svcError' = [svcError EXCEPT ![c] = "User already exists"]
             ELSE /\ svcPc' = [svcPc EXCEPT ![c] = "create"]
                  /\ svcError' = svcError
    /\ UNCHANGED <<dbVars, opCount, writesVars, programRuns, beforeEachPc, txVars,
                   svcEmail, runVars>>

\* repository.create resolves or rejects; a rejection is thrown on as it is.
ServiceCreate ==
  \E c \in Callers :
    /\ svcPc[c] = "create"
    /\ LET r == InsertUser(users, UserRow(nextUserId, svcEmail[c],
                                          NameOf(svcEmail[c]), now))
       IN /\ users' = r.users
          /\ nextUserId' = IF r.error = "none" THEN nextUserId + 1 ELSE nextUserId
          /\ lastCall' = CallReturning("user.create",
                                       <<svcEmail[c], NameOf(svcEmail[c])>>,
                                       r.error, CreatedUser(r, nextUserId))
          /\ svcPc' = [svcPc EXCEPT ![c] = IF r.error = "none" THEN "returned"
                                           ELSE "thrown"]
          /\ svcError' = [svcError EXCEPT ![c] = r.error]
    /\ UNCHANGED <<profiles, posts, tags, nextProfileId, nextPostId, nextTagId, now>>
    /\ UNCHANGED <<opCount, writesVars, programRuns, beforeEachPc, txVars,
                   svcEmail, runVars>>

DbNext ==
  \/ UserCreate
  \/ UserCreateMany
  \/ UserFindUnique
  \/ UserUpdate
  \/ UserUpsert
  \/ UserDelete
  \/ ProfileCreate
  \/ ProfileDelete
  \/ PostCreate
  \/ PostDelete
  \/ TagCreate
  \/ WritesCall
  \/ WritesCreateAlice
  \/ WritesCreateBob
  \/ WritesCreateMany

DbSpecInit == DbInit /\ CallInit /\ WritesInit /\ ProgInit /\ RunInit(MainBody)

\* Client calls and writes() against the schema.
DbSpec == DbSpecInit /\ [][DbNext]_vars

\* The documented programs (beforeEach, the interactive transaction,
\* UserService.createUser) and writes() against the schema.
ProgramNext ==
  \/ WritesCall
  \/ WritesCreateAlice
  \/ WritesCreateBob
  \/ WritesCreateMany
  \/ BeforeEachCall
  \/ BeforeEachDeleteUsers
  \/ BeforeEachDeletePosts
  \/ TxBegin
  \/ TxCreateUser
  \/ TxCreateProfile
  \/ TxCommit
  \/ ServiceCall
  \/ ServiceFindByEmail
  \/ ServiceCreate

ProgramInit == DbInit /\ CallInit /\ WritesInit /\ ProgInit /\ RunInit(MainBody)

ProgramSpec == ProgramInit /\ [][ProgramNext]_vars

\* =================================================== claims about server.js
Settled(p) == prom[p].st # "pending"
ReadsFinished == readsPc \in {"returned", "thrown"}
AliceExists == \E u \in users : u.email = "alice@example.com"

\* C1: in every run of server.js prisma.$disconnect() is called exactly
\* once: never more than once, and it has been called once the job queue
\* has drained after the script body and once the .finally() promise settled.
C1_DisconnectExactlyOnce ==
  /\ disconnectCalls <= 1
  /\ (pc = "loop" /\ jobs = <<>>) => disconnectCalls = 1
  /\ Settled("finally") => disconnectCalls = 1

C1_Witness ==
  /\ prom["main"].st = "fulfilled"
  /\ Settled("finally")
  /\ disconnectCalls = 1

\* C2 (as claimed): once prisma.$disconnect() has been called, reads() has
\* finished: every query it issued has settled and none is issued later.
C2_DisconnectAfterReads ==
  disconnectCalls > 0 =>
    /\ ReadsFinished
    /\ \A i \in 1..Len(QueryNames) : query[i] # "pending"

\* C3: if main() rejects with e, the catch handler re-throws e, and once
\* $disconnect() has resolved and the .finally() promise has settled, that
\* promise is rejected with the same e and nothing handles it.
C3_RethrowReachesChain ==
  prom["main"].st = "rejected" =>
    /\ Settled("catch") => prom["catch"] = Rejected(prom["main"].val)
    /\ (prom["disconnect"].st = "fulfilled" /\ Settled("finally")) =>
         /\ prom["finally"] = Rejected(prom["main"].val)
         /\ "finally" \in unhandled

C3_Witness ==
  /\ prom["main"].st = "rejected"
  /\ prom["disconnect"].st = "fulfilled"
  /\ prom["finally"] = Rejected(prom["main"].val)

\* C10: findUnique by email resolves to null exactly when no User has the
\* email and otherwise to the one User row with it; when the query resolves
\* reads() logs that result and goes on to findFirst in both cases.
C10_FindUniqueResult ==
  /\ Len(log) >= 1 =>
       LET user == log[1][2]
       IN /\ (user = NullRow) <=> ~AliceExists
          /\ user # NullRow =>
               /\ user \in users
               /\ user.email = "alice@example.com"
               /\ \A u \in users : u.email = "alice@example.com" => u = user
  /\ (query[1] = "resolved" /\ readsPc # "findUnique") =>
       /\ Len(log) = 1
       /\ log[1][2] = readsLocals.user
       /\ query[2] # "unissued"

C10_Witness ==
  /\ ~AliceExists
  /\ Len(log) = 1
  /\ log[1][2] = NullRow
  /\ query[2] = "pending"

\* ================================================== claims about the schema
\* A step that executes the client call op.
CallStep(op) ==
  /\ lastCall'.op = op
  /\ \/ opCount' = opCount + 1
     \/ WritesRunning /\ writesPc' # writesPc
     \/ BeforeEachRunning /\ beforeEachPc' # beforeEachPc
     \/ TxRunning /\ txPc' # txPc
     \/ \E c \in Callers : svcPc[c] \in {"findByEmail", "create"}
                              /\ svcPc'[c] # svcPc[c]

UniqueEmails == \A u \in users, v \in users : u.email = v.email => u = v

DuplicateEmailCreateFails ==
  (CallStep("user.create") /\ \E u \in users : u.email = lastCall'.arg[1]) =>
    (lastCall'.error = "P2002" /\ users' = users)

\* C4: no two User rows ever have the same email, and a user.create whose
\* email already belongs to a User fails with P2002 and leaves the User rows
\* unchanged.
C4_UniqueEmail == []UniqueEmails /\ [][DuplicateEmailCreateFails]_vars

C4_Witness ==
  /\ lastCall.op = "user.create"
  /\ lastCall.error = "P2002"
  /\ \E u \in users : u.email = lastCall.arg[1]

UserExists(us, id) == \E u \in us : u.id = id

ReferentialIntegrity ==
  /\ \A pf \in profiles : UserExists(users, pf.userId)
  /\ \A p \in posts : UserExists(users, p.authorId)

Referenced(id) ==
  \/ \E pf \in profiles : pf.userId = id
  \/ \E p \in posts : p.authorId = id

BreakingCallRejected ==
  /\ (CallStep("user.delete") /\ Referenced(lastCall'.arg[1])) =>
       /\ lastCall'.error = "P2003"
       /\ users' = users /\ profiles' = profiles /\ posts' = posts
  /\ (CallStep("profile.create") /\ ~UserExists(users, lastCall'.arg[1])) =>
       (lastCall'.error = "P2003" /\ profiles' = profiles)
  /\ (CallStep("post.create") /\ ~UserExists(users, lastCall'.arg[1])) =>
       (lastCall'.error = "P2003" /\ posts' = posts)

\* C5: every Profile.userId and every Post.authorId is the id of an existing
\* User in every reachable state, and a call that would break this (deleting
\* a referenced User, creating a Profile or Post for a missing User) is
\* rejected and changes nothing.
C5_ReferentialIntegrity == []ReferentialIntegrity /\ [][BreakingCallRejected]_vars

C5_Witness ==
  /\ lastCall.op = "user.delete"
  /\ lastCall.error = "P2003"
  /\ \E p \in posts : p.authorId = lastCall.arg[1]
  /\ UserExists(users, lastCall.arg[1])

UserDeleteFrame ==
  CallStep("user.delete") =>
    /\ posts' = posts
    /\ profiles' = profiles
    /\ users' \subseteq users
    /\ \A u \in users \ users' : u.id = lastCall'.arg[1]

UniqueProfileUser == \A a \in profiles, b \in profiles : a.userId = b.userId => a = b

SecondProfileFails ==
  (CallStep("profile.create") /\ \E pf \in profiles : pf.userId = lastCall'.arg[1]) =>
    (lastCall'.error = "P2002" /\ profiles' = profiles)

\* C7: no two Profile rows ever have the same userId, and a profile.create
\* for a User that already has a Profile fails and leaves the Profile rows
\* unchanged.
C7_OneProfilePerUser == []UniqueProfileUser /\ [][SecondProfileFails]_vars

C7_Witness ==
  /\ lastCall.op = "profile.create"
  /\ lastCall.error = "P2002"
  /\ \E pf \in profiles : pf.userId = lastCall.arg[1]

UniqueTagNames == \A a \in tags, b \in tags : a.name = b.name => a = b

DuplicateTagCreateFails ==
  (CallStep("tag.create") /\ \E t \in tags : t.name = lastCall'.arg[1]) =>
    (lastCall'.error = "P2002" /\ tags' = tags)

\* C8: no two Tag rows ever have the same name, and a tag.create whose name
\* already exists fails and leaves the Tag rows unchanged.
C8_UniqueTagName == []UniqueTagNames /\ [][DuplicateTagCreateFails]_vars

C8_Witness ==
  /\ lastCall.op = "tag.create"
  /\ lastCall.error = "P2002"
  /\ \E t \in tags : t.name = lastCall.arg[1]

DefaultUnpublished ==
  (CallStep("post.create") /\ lastCall'.arg[2] = "default"
     /\ lastCall'.error = "none") =>
    (posts' # posts /\ \A p \in posts' \ posts : p.published = FALSE)

WritesPostsUnpublished ==
  (writesPc = "createBob" /\ writesPc' = "createMany") =>
    /\ Cardinality(posts' \ posts) = 2
    /\ \A p \in posts' \ posts :
         /\ p.published = FALSE
         /\ FindUnique(users', "bob@example.com").id = p.authorId

WritesOnEmptyDatabase ==
  (writesPc = "createMany" /\ writesPc' = "returned"
     /\ writesStart.users = {} /\ writesStart.posts = {}) =>
    UsersWithPublishedPost(users', posts') = {}

\* C9: a Post created without a published value has published = false; the
\* two posts writes() creates for bob@example.com are unpublished, and when
\* writes() returns after starting on an empty database no user has a
\* published post.
C9_PublishedDefaultsFalse ==
  [][DefaultUnpublished /\ WritesPostsUnpublished /\ WritesOnEmptyDatabase]_vars

C9_Witness ==
  /\ writesPc = "returned"
  /\ opCount = 0
  /\ writesStart.users = {} /\ writesStart.posts = {}
  /\ Cardinality(posts) = 2
  /\ Count(users, posts) = 0

CreateReturnsRow ==
  (CallStep("user.create") /\ lastCall'.error = "none") =>
    /\ lastCall'.result.email = lastCall'.arg[1]
    /\ lastCall'.result.name = lastCall'.arg[2]
    /\ lastCall'.result.id \in 1..(nextUserId' - 1)
    /\ lastCall'.result \in users'

LookupAfterCreate ==
  (CallStep("user.findUnique") /\ lastCall.op = "user.create"
     /\ lastCall.error = "none" /\ lastCall.arg[1] = lastCall'.arg[1]) =>
    /\ lastCall'.result # NullRow
    /\ lastCall'.result.email = lastCall.arg[1]
    /\ lastCall'.result.name = lastCall.arg[2]
    /\ lastCall'.result.id = lastCall.result.id

\* C11: a successful user.create with email e and name n resolves to a row
\* with email e, name n and an id, and a findUnique by e that follows it
\* resolves to a non-null row with the same email, name and id.
C11_CreateLookupRoundTrip == [][CreateReturnsRow /\ LookupAfterCreate]_vars

C11_Witness ==
  /\ lastCall.op = "user.findUnique"
  /\ lastCall.result # NullRow
  /\ lastCall.result.email = lastCall.arg[1]
  /\ opCount = 2 /\ writesRuns = 0
  /\ users = {lastCall.result}

\* C12 (as claimed): beforeEach never throws, and when it has returned
\* the User table and the Post table are empty.
C12_BeforeEachCleans ==
  /\ beforeEachPc # "thrown"
  /\ (beforeEachPc = "returned" /\ lastCall.op = "post.deleteMany") =>
       (users = {} /\ posts = {})

JohnExists(us) == \E u \in us : u.email = "john@email.com"

\* While the transaction runs no other client can read its User row.
TxIsolated ==
  TxRunning => (txUser # NullRow => ~UserExists(users, txUser.id))

\* The step that settles the transaction either commits both rows or leaves
\* the tables as they were, without the User row of the transaction.
TxSettlesAtomically ==
  (TxRunning /\ txPc' \in {"committed", "rolledBack"}) =>
    \/ /\ txPc' = "committed"
       /\ txUser \in users'
       /\ txProfile \in profiles'
       /\ txProfile.userId = txUser.id
    \/ /\ txPc' = "rolledBack"
       /\ users' = users
       /\ profiles' = profiles
       /\ txUser # NullRow => ~UserExists(users', txUser.id)

\* C13: the interactive transaction (user.create, then profile.create for
\* it) is atomic: when it settles either both rows are in the tables or
\* neither is; when the profile create fails the User row it created is not
\* in the User table; and while it runs no reader sees the User row.
C13_TransactionAtomic == []TxIsolated /\ [][TxSettlesAtomically]_vars

C13_Witness ==
  /\ txPc = "rolledBack"
  /\ lastCall.op = "tx.profile.create"
  /\ lastCall.error \in Errors
  /\ ~JohnExists(users)
  /\ ~UserExists(users, lastCall.arg[1])

\* C14 (as claimed): a createUser call that fails does so with an error of
\* the service ('User already exists' for a duplicate email), never with the
\* database's unique-constraint error.
C14_ServiceRejectsDuplicates ==
  \A c \in Callers :
    svcPc[c] = "thrown" =>
      svcError[c] \in {"Invalid email format", "User already exists"}

\* The findMany call of reads() has resolved and its result is in `users`.
FindManyResolved == Len(issued) = Len(QueryNames)

Matching == UsersWithPublishedPost(users, posts)

Newer(u) == {v \in Matching : v.createdAt > u.createdAt}
NotOlder(u) == {v \in Matching : v.createdAt >= u.createdAt}

Min(a, b) == IF a < b THEN a ELSE b

\* C15: the result of the findMany call of reads() has at most Take (10)
\* users, each with a published post, in descending createdAt order, and is
\* the list of all such users sorted by createdAt descending without its
\* first Skip (20) entries, cut to Take entries: entry i stands at place
\* Skip + i of that list, and the result is empty when Skip or fewer match.
C15_FindManyPage ==
  FindManyResolved =>
    LET r == readsLocals.users
        n == Cardinality(Matching)
    IN /\ Len(r) <= Take
       /\ Len(r) = (IF n <= Skip THEN 0 ELSE Min(n - Skip, Take))
       /\ \A i \in 1..Len(r) :
            /\ r[i] \in Matching
            /\ Cardinality(Newer(r[i])) <= Skip + i - 1
            /\ Cardinality(NotOlder(r[i])) >= Skip + i
       /\ \A i \in 1..Len(r), j \in 1..Len(r) :
            i < j => r[i].createdAt >= r[j].createdAt /\ r[i] # r[j]

C15_Witness ==
  /\ FindManyResolved
  /\ Len(readsLocals.users) = Take
  /\ Cardinality(Matching) > Skip + Take
  /\ \E i \in 1..(Take - 1) :
       readsLocals.users[i].createdAt = readsLocals.users[i + 1].createdAt

InFlight == {i \in 1..Len(QueryNames) : query[i] = "pending"}

\* The queries issued so far are the first ones of the four, in order, and
\* none is unissued before an issued one or issued after an unresolved one.
IssuedInOrder ==
  /\ Len(issued) <= 4
  /\ issued = SubSeq(<<"findUnique", "findFirst", "findMany", "count">>,
                     1, Len(issued))
  /\ \A i \in 1..Len(QueryNames) :
       query[i] # "unissued" <=> i <= Len(issued)
  /\ \A i \in 2..Len(QueryNames) :
       query[i] # "unissued" => query[i - 1] = "resolved"

\* A settled query stays settled, and a step issues at most one query.
NoRetry ==
  /\ \A i \in 1..Len(QueryNames) :
       query[i] \in {"resolved", "rejected"} => query'[i] = query[i]
  /\ Len(issued') <= Len(issued) + 1
  /\ SubSeq(issued', 1, Len(issued)) = issued

\* C16: reads() issues findUnique, findFirst, findMany, count in that order,
\* each at most once and only after the one before it has resolved; at most
\* one query is in flight; after a rejection no later query is issued.
C16_QueriesInSequence ==
  /\ [](IssuedInOrder /\ Cardinality(InFlight) <= 1)
  /\ [][NoRetry]_vars

C16_Witness ==
  /\ query = <<"resolved", "rejected", "unissued", "unissued">>
  /\ issued = <<"findUnique", "findFirst">>
  /\ readsPc = "thrown"
  /\ Settled("finally")

\* C17 (as claimed): when a query awaited in reads() rejects with e, the
\* promise of main() rejects with e and the chain's catch handler sees it;
\* the rejection is not left without a handler.
C17_ReadsErrorReachesCatch ==
  (readsPc = "thrown" /\ Settled("main")) =>
    /\ prom["main"] = Rejected(prom["reads"].val)
    /\ "reads" \notin unhandled

ReadQueries == {"findUnique", "findFirst", "findMany", "count"}

\* No step of a run changes a row of the four tables.
RowsUnchanged == UNCHANGED <<users, profiles, posts, tags>>

\* C18: a run of server.js is read-only: writes() is never called, only the
\* four read queries are issued, no create or createMany is, and the User,
\* Profile, Post and Tag rows stay as they were before the run.
C18_RunIsReadOnly ==
  /\ [](/\ writesPc = "idle" /\ writesRuns = 0
        /\ lastCall.op = "none"
        /\ \A i \in 1..Len(issued) : issued[i] \in ReadQueries)
  /\ [][RowsUnchanged]_vars

C18_Witness ==
  /\ readsPc = "returned"
  /\ Settled("finally")
  /\ users = SeedUsers /\ posts = SeedPosts(TRUE)
  /\ writesPc = "idle"

\* The rows this run of writes() has added so far.
AddedUsers(us) == us \ writesStart.users
AddedPosts(ps) == ps \ writesStart.posts

AddedEmails(us) == {u.email : u \in AddedUsers(us)}

\* Each insert of writes() is committed when it resolves, and a failing
\* insert leaves the rows of the earlier ones.
WritesCommitsOneByOne ==
  /\ (writesPc = "createAlice" /\ writesPc' = "createBob") =>
       /\ AddedEmails(users') = {"alice@example.com"}
       /\ AddedPosts(posts') = {}
  /\ (writesPc = "createBob" /\ writesPc' = "createMany") =>
       /\ AddedEmails(users') = {"alice@example.com", "bob@example.com"}
       /\ Cardinality(AddedPosts(posts')) = 2
  /\ (writesPc = "createBob" /\ writesPc' = "thrown") =>
       /\ lastCall'.error # "none"
       /\ AddedEmails(users') = {"alice@example.com"}
       /\ AddedPosts(posts') = {}
  /\ (writesPc = "createMany" /\ writesPc' = "thrown") =>
       /\ lastCall'.error # "none"
       /\ AddedEmails(users') = {"alice@example.com", "bob@example.com"}
       /\ Cardinality(AddedPosts(posts')) = 2

\* A run that finds alice@example.com fails at its first create.
RunOnWrittenDatabaseFails ==
  (writesPc = "createAlice" /\ AliceExists) =>
    /\ writesPc' = "thrown"
    /\ lastCall'.op = "user.create" /\ lastCall'.error = "P2002"
    /\ UNCHANGED <<users, profiles, posts, tags>>

\* A run of writes() that follows another with no client call in between
\* gets no further than its first create and adds no row.
SecondRunAddsNothing ==
  (writesRuns >= 2 /\ opCount = 0) =>
    /\ writesPc \in {"createAlice", "thrown"}
    /\ AddedUsers(users) = {} /\ AddedPosts(posts) = {}
    /\ Cardinality(users) = 4 /\ Cardinality(posts) = 2

\* C19: writes() is not a transaction: its inserts (alice; bob with two
\* posts; user1 and user2) are committed one by one in that order, the rows
\* of the earlier inserts remain when the second or the third insert fails,
\* and a second run after a successful one fails at the first create with
\* a unique-email violation and adds no row.
C19_WritesNotTransactional ==
  /\ []SecondRunAddsNothing
  /\ [][WritesCommitsOneByOne /\ RunOnWrittenDatabaseFails]_vars

C19_Witness ==
  /\ writesPc = "thrown"
  /\ lastCall.op = "user.createMany" /\ lastCall.error = "P2002"
  /\ AddedEmails(users) = {"alice@example.com", "bob@example.com"}
  /\ Cardinality(AddedPosts(posts)) = 2

\* The nested create either adds the user and its two posts, or nothing.
NestedCreateAllOrNothing ==
  /\ (writesPc = "createBob" /\ writesPc' = "createMany") =>
       /\ lastCall'.error = "none"
       /\ users \subseteq users' /\ posts \subseteq posts'
       /\ Cardinality(users' \ users) = 1
       /\ Cardinality(posts' \ posts) = 2
       /\ \A u \in users' \ users :
            /\ u.email = "bob@example.com"
            /\ \A p \in posts' \ posts : p.authorId = u.id
  /\ (writesPc = "createBob" /\ writesPc' = "thrown") =>
       /\ lastCall'.error # "none"
       /\ users' = users /\ posts' = posts

====
